---- MODULE Spec2Model ----
(***************************************************************************)
(* The authentication router of Project_PythonGram (src/routes/auth.py):   *)
(* the four request handlers signup, login, refresh_token and logout over  *)
(* the user store and the refresh-token blacklist.                         *)
(*                                                                         *)
(* Under Spec every handler runs to completion before the next request is  *)
(* served (one request at a time).  Under SpecConc two requests are in     *)
(* flight and each handler is split where it waits for the store: between  *)
(* its lookup and its write.  The repository and the auth service are not  *)
(* part of routes/auth.py; they are modelled from their contracts.         *)
(***************************************************************************)
EXTENDS Integers, Sequences, FiniteSets, TLC

VARIABLES
    users,      \* the user table: a sequence of records, the id is the index
    blacklist,  \* the blacklist table: a sequence of [user_id, token] rows
    clock,      \* the issue time the auth service stamps into the next token pair
    issued,     \* the token pairs handed out so far, each with the user it was stored on
    resp,       \* the request served last and its response
    pending     \* per request in flight: what the handler holds between its two store accesses

vars == <<users, blacklist, clock, issued, resp, pending>>

(***************************************************************************)
(* Bounds and input domains.                                               *)
(***************************************************************************)
MaxTokens == 2      \* token pairs issued in one run
MaxBlacklist == 1   \* blacklist rows written in one run

Usernames == {"alice", "bob"}
Emails == {"a@x.io", "b@x.io"}
Passwords == {"pw1"}                          \* what an account is created with
LoginPasswords == Passwords \cup {"guess"}    \* what a login may submit

(***************************************************************************)
(* Tokens.  A token carries the claim "sub" (the email), its issue time    *)
(* and its scope.  None is the null value of the refresh_token column.     *)
(***************************************************************************)
None == [sub |-> "", iat |-> 0, scope |-> "None"]

\* A bearer string that is no token of this service: decoding it fails.
GarbageToken == [sub |-> "", iat |-> 0, scope |-> "garbage"]

\* A well-formed refresh token whose email belongs to no user record.
ForeignToken == [sub |-> "ghost@x.io", iat |-> 1, scope |-> "refresh_token"]

create_access_token(email, now) == [sub |-> email, iat |-> now, scope |-> "access_token"]

create_refresh_token(email, now) == [sub |-> email, iat |-> now, scope |-> "refresh_token"]

Decodable(token) == token.scope = "refresh_token" /\ token.iat > 0

decode_refresh_token(token) == token.sub

(***************************************************************************)
(* Passwords.                                                              *)
(***************************************************************************)
get_password_hash(plain) == "$2b$" \o plain

verify_password(plain, hashed) == get_password_hash(plain) = hashed

(***************************************************************************)
(* The user repository.  A lookup that matches several records may return  *)
(* any of them; the handlers take the result as "the" user.                *)
(***************************************************************************)
Ids == 1..Len(users)

get_user_by_username(name) == {u \in Ids : users[u].full_name = name}

get_user_by_email(email) == {u \in Ids : users[u].email = email}

create_user(body) ==
    Append(users, [full_name |-> body.full_name, email |-> body.email,
                   password |-> body.password, ban |-> FALSE, refresh_token |-> None])

update_token(u, token) == [users EXCEPT ![u].refresh_token = token]

add_token_to_blacklist(user_id, token) ==
    Append(blacklist, [user_id |-> user_id, token |-> token])

\* The bearer access tokens clients hold, and the user each resolves to.
AccessTokens == {x.access : x \in issued}

get_current_user(access) == get_user_by_email(access.sub)

(***************************************************************************)
(* Responses.                                                              *)
(***************************************************************************)
NoResp ==
    [op |-> "", status |-> 0, detail |-> "", uid |-> 0,
     username |-> "", password |-> "", token |-> None,
     access_token |-> None, refresh_token |-> None, token_type |-> "",
     user_password |-> ""]

\* The requests that can be in flight together, and what a handler that has not
\* started (or has answered) holds.
Requests == {"r1", "r2"}

Idle ==
    [op |-> "", uid |-> 0, token |-> None, mismatch |-> FALSE,
     body |-> [full_name |-> "", email |-> "", password |-> ""], plain |-> ""]

Init ==
    /\ pending = [r \in Requests |-> Idle]
    /\ users = <<>>
    /\ blacklist = <<>>
    /\ clock = 1
    /\ issued = {}
    /\ resp = NoResp

(***************************************************************************)
(* POST /auth/signup                                                       *)
(***************************************************************************)
signup_exists_never(full_name) == FALSE

signup_exists(full_name) == get_user_by_username(full_name) # {}

signup_body_plain(full_name, email, password) ==
    [full_name |-> full_name, email |-> email, password |-> password]

signup_body(full_name, email, password) ==
    [full_name |-> full_name, email |-> email, password |-> get_password_hash(password)]

signup(full_name, email, password) ==
    /\ IF signup_exists(full_name)
       THEN /\ users' = users
            /\ resp' = [NoResp EXCEPT !.op = "signup", !.status = 409,
                                      !.detail = "Account already exists",
                                      !.username = full_name]
       ELSE LET body == signup_body(full_name, email, password)
                new_user == Len(users) + 1
            IN  /\ users' = create_user(body)
                /\ resp' = [NoResp EXCEPT !.op = "signup", !.status = 201,
                                          !.uid = new_user,
                                          !.username = full_name,
                                          !.password = password,
                                          !.user_password = users'[new_user].password]
    /\ UNCHANGED <<blacklist, clock, issued>>

(***************************************************************************)
(* POST /auth/login                                                        *)
(***************************************************************************)
login_error_nopw(u, password) ==
    IF users[u].ban THEN "You were banned by an administrator" ELSE ""

login_error_noban(u, password) ==
    IF ~verify_password(password, users[u].password) THEN "Invalid password" ELSE ""

login_error_banfirst(u, password) ==
    IF users[u].ban THEN "You were banned by an administrator"
    ELSE IF ~verify_password(password, users[u].password) THEN "Invalid password"
    ELSE ""

login_error(u, password) ==
    IF ~verify_password(password, users[u].password) THEN "Invalid password"
    ELSE IF users[u].ban THEN "You were banned by an administrator"
    ELSE ""

login_persist_skip(u, refresh) == users

login_persist(u, refresh) == update_token(u, refresh)

login(username, password) ==
    LET found == get_user_by_username(username)
        req == [NoResp EXCEPT !.op = "login", !.username = username, !.password = password]
    IN  IF found = {}
        THEN /\ resp' = [req EXCEPT !.status = 401, !.detail = "Invalid email"]
             /\ UNCHANGED <<users, blacklist, clock, issued>>
        ELSE \E u \in found :
               IF login_error(u, password) # ""
               THEN /\ resp' = [req EXCEPT !.status = 401, !.uid = u,
                                           !.detail = login_error(u, password)]
                    /\ UNCHANGED <<users, blacklist, clock, issued>>
               ELSE LET access_token == create_access_token(users[u].email, clock)
                        refresh == create_refresh_token(users[u].email, clock)
                    IN  /\ clock <= MaxTokens
                        /\ clock' = clock + 1
                        /\ users' = login_persist(u, refresh)
                        /\ issued' = issued \cup {[uid |-> u, by |-> "login", from |-> None,
                                                   access |-> access_token,
                                                   refresh |-> refresh]}
                        /\ resp' = [req EXCEPT !.status = 200, !.uid = u,
                                               !.access_token = access_token,
                                               !.refresh_token = refresh,
                                               !.token_type = "bearer"]
                        /\ UNCHANGED blacklist

(***************************************************************************)
(* GET /auth/refresh_token                                                 *)
(***************************************************************************)
refresh_mismatch_never(u, token) == FALSE

refresh_mismatch_or_blacklisted(u, token) ==
    \/ users[u].refresh_token # token
    \/ \E i \in 1..Len(blacklist) : blacklist[i].token = token

refresh_mismatch(u, token) == users[u].refresh_token # token

refresh_reject_skip(u) == users

refresh_reject(u) == update_token(u, None)

refresh_persist_skip(u, refresh) == users

refresh_persist(u, refresh) == update_token(u, refresh)

refresh_token(token) ==
    LET req == [NoResp EXCEPT !.op = "refresh", !.token = token]
    IN  IF ~Decodable(token)
        THEN /\ resp' = [req EXCEPT !.status = 401,
                                    !.detail = "Could not validate credentials"]
             /\ UNCHANGED <<users, blacklist, clock, issued>>
        ELSE LET email == decode_refresh_token(token)
                 found == get_user_by_email(email)
             IN  IF found = {}
                 THEN \* user is None: user.refresh_token raises, the request ends in 500
                      /\ resp' = [req EXCEPT !.status = 500,
                                             !.detail = "Internal Server Error"]
                      /\ UNCHANGED <<users, blacklist, clock, issued>>
                 ELSE \E u \in found :
                        IF refresh_mismatch(u, token)
                        THEN /\ users' = refresh_reject(u)
                             /\ resp' = [req EXCEPT !.status = 401, !.uid = u,
                                                    !.detail = "Invalid refresh token"]
                             /\ UNCHANGED <<blacklist, clock, issued>>
                        ELSE LET access_token == create_access_token(email, clock)
                                 refresh == create_refresh_token(email, clock)
                             IN  /\ clock <= MaxTokens
                                 /\ clock' = clock + 1
                                 /\ users' = refresh_persist(u, refresh)
                                 /\ issued' = issued \cup {[uid |-> u, by |-> "refresh",
                                                            from |-> token,
                                                            access |-> access_token,
                                                            refresh |-> refresh]}
                                 /\ resp' = [req EXCEPT !.status = 200, !.uid = u,
                                                        !.access_token = access_token,
                                                        !.refresh_token = refresh,
                                                        !.token_type = "bearer"]
                                 /\ UNCHANGED blacklist

(***************************************************************************)
(* POST /auth/logout                                                       *)
(***************************************************************************)
logout_clears(access) ==
    \E user \in get_current_user(access) :
        /\ Len(blacklist) < MaxBlacklist
        /\ blacklist' = add_token_to_blacklist(user, users[user].refresh_token)
        /\ users' = update_token(user, None)
        /\ resp' = [NoResp EXCEPT !.op = "logout", !.status = 200, !.uid = user,
                                  !.access_token = access,
                                  !.detail = "Logout successful."]
        /\ UNCHANGED <<clock, issued>>

logout(access) ==
    \E user \in get_current_user(access) :
        /\ Len(blacklist) < MaxBlacklist
        /\ blacklist' = add_token_to_blacklist(user, users[user].refresh_token)
        /\ resp' = [NoResp EXCEPT !.op = "logout", !.status = 200, !.uid = user,
                                  !.access_token = access,
                                  !.detail = "Logout successful."]
        /\ UNCHANGED <<users, clock, issued>>

(***************************************************************************)
(* The administrator sets or lifts a ban (outside this router).            *)
(***************************************************************************)
set_ban(u, ban) ==
    /\ users[u].ban # ban
    /\ users' = [users EXCEPT ![u].ban = ban]
    /\ resp' = [NoResp EXCEPT !.op = "set_ban", !.uid = u]
    /\ UNCHANGED <<blacklist, clock, issued>>

(***************************************************************************)
(* The requests a client can send.                                         *)
(***************************************************************************)
RefreshTokens == {x.refresh : x \in issued} \cup {GarbageToken, ForeignToken}

Next ==
    \/ \E n \in Usernames, e \in Emails, p \in Passwords :
            signup(n, e, p) /\ UNCHANGED pending
    \/ \E n \in Usernames, p \in LoginPasswords : login(n, p) /\ UNCHANGED pending
    \/ \E t \in RefreshTokens : refresh_token(t) /\ UNCHANGED pending
    \/ \E a \in AccessTokens : logout(a) /\ UNCHANGED pending
    \/ \E u \in Ids, b \in BOOLEAN : set_ban(u, b) /\ UNCHANGED pending

Spec == Init /\ [][Next]_vars

(***************************************************************************)
(* The handlers with two requests in flight.  A handler gives up control   *)
(* where it waits for the store: the first step is its lookup and the      *)
(* checks made on the record it got, the second its write and its answer.  *)
(* A check that fails before any write answers in the first step.  The     *)
(* requests are signups, logins and refreshes for one username and one     *)
(* email; logout writes only the blacklist, which no handler reads.        *)
(***************************************************************************)
MaxConcTokens == 3   \* token pairs issued in one run with requests in flight

ConcUsernames == {"alice"}
ConcEmails == {"a@x.io"}

\* signup, lines 29-32: the existence check, then the body with the hash.
signup_check(r, full_name, email, password) ==
    /\ pending[r] = Idle
    /\ IF signup_exists(full_name)
       THEN /\ resp' = [NoResp EXCEPT !.op = "signup", !.status = 409,
                                      !.detail = "Account already exists",
                                      !.username = full_name]
            /\ UNCHANGED pending
       ELSE /\ pending' = [pending EXCEPT ![r] =
                  [Idle EXCEPT !.op = "signup", !.plain = password,
                               !.body = signup_body(full_name, email, password)]]
            /\ UNCHANGED resp
    /\ UNCHANGED <<users, blacklist, clock, issued>>

\* A create that looks the username up again in the same store access.
signup_create_checked(r) ==
    /\ pending[r].op = "signup"
    /\ pending' = [pending EXCEPT ![r] = Idle]
    /\ IF signup_exists(pending[r].body.full_name)
       THEN /\ users' = users
            /\ resp' = [NoResp EXCEPT !.op = "signup", !.status = 409,
                                      !.detail = "Account already exists",
                                      !.username = pending[r].body.full_name]
       ELSE /\ users' = create_user(pending[r].body)
            /\ resp' = [NoResp EXCEPT !.op = "signup", !.status = 201,
                                      !.uid = Len(users) + 1,
                                      !.username = pending[r].body.full_name,
                                      !.password = pending[r].plain,
                                      !.user_password = pending[r].body.password]
    /\ UNCHANGED <<blacklist, clock, issued>>

\* signup, lines 33-35: create_user and the answer.
signup_create(r) ==
    /\ pending[r].op = "signup"
    /\ pending' = [pending EXCEPT ![r] = Idle]
    /\ users' = create_user(pending[r].body)
    /\ resp' = [NoResp EXCEPT !.op = "signup", !.status = 201,
                              !.uid = Len(users) + 1,
                              !.username = pending[r].body.full_name,
                              !.password = pending[r].plain,
                              !.user_password = users'[Len(users) + 1].password]
    /\ UNCHANGED <<blacklist, clock, issued>>

\* login, lines 52-60: the lookup and the three checks.
login_check(r, username, password) ==
    LET found == get_user_by_username(username)
        req == [NoResp EXCEPT !.op = "login", !.username = username, !.password = password]
    IN  /\ pending[r] = Idle
        /\ IF found = {}
           THEN /\ resp' = [req EXCEPT !.status = 401, !.detail = "Invalid email"]
                /\ UNCHANGED pending
           ELSE \E u \in found :
                  IF login_error(u, password) # ""
                  THEN /\ resp' = [req EXCEPT !.status = 401, !.uid = u,
                                              !.detail = login_error(u, password)]
                       /\ UNCHANGED pending
                  ELSE /\ pending' = [pending EXCEPT ![r] =
                             [Idle EXCEPT !.op = "login", !.uid = u, !.plain = password,
                                          !.body = [full_name |-> username,
                                                    email |-> users[u].email,
                                                    password |-> ""]]]
                       /\ UNCHANGED resp
        /\ UNCHANGED <<users, blacklist, clock, issued>>

\* login, lines 62-65: the token pair, update_token and the answer.
login_write(r) ==
    LET u == pending[r].uid
        email == pending[r].body.email
        access_token == create_access_token(email, clock)
        refresh == create_refresh_token(email, clock)
    IN  /\ pending[r].op = "login"
        /\ clock <= MaxConcTokens
        /\ clock' = clock + 1
        /\ pending' = [pending EXCEPT ![r] = Idle]
        /\ users' = login_persist(u, refresh)
        /\ issued' = issued \cup {[uid |-> u, by |-> "login", from |-> None,
                                   access |-> access_token, refresh |-> refresh]}
        /\ resp' = [NoResp EXCEPT !.op = "login", !.status = 200, !.uid = u,
                                  !.username = pending[r].body.full_name,
                                  !.password = pending[r].plain,
                                  !.access_token = access_token,
                                  !.refresh_token = refresh,
                                  !.token_type = "bearer"]
        /\ UNCHANGED blacklist

\* refresh_token, lines 84-87: decode, the lookup and the comparison.
refresh_check(r, token) ==
    LET req == [NoResp EXCEPT !.op = "refresh", !.token = token]
    IN  /\ pending[r] = Idle
        /\ IF ~Decodable(token)
           THEN /\ resp' = [req EXCEPT !.status = 401,
                                       !.detail = "Could not validate credentials"]
                /\ UNCHANGED pending
           ELSE IF get_user_by_email(decode_refresh_token(token)) = {}
           THEN /\ resp' = [req EXCEPT !.status = 500,
                                       !.detail = "Internal Server Error"]
                /\ UNCHANGED pending
           ELSE \E u \in get_user_by_email(decode_refresh_token(token)) :
                  /\ pending' = [pending EXCEPT ![r] =
                        [Idle EXCEPT !.op = "refresh", !.uid = u, !.token = token,
                                     !.mismatch = refresh_mismatch(u, token)]]
                  /\ UNCHANGED resp
        /\ UNCHANGED <<users, blacklist, clock, issued>>

\* A write that compares the stored token again in the same store access.
refresh_write_checked(r) ==
    LET u == pending[r].uid
        token == pending[r].token
        email == decode_refresh_token(token)
        req == [NoResp EXCEPT !.op = "refresh", !.token = token, !.uid = u]
        access_token == create_access_token(email, clock)
        refresh == create_refresh_token(email, clock)
    IN  /\ pending[r].op = "refresh"
        /\ pending' = [pending EXCEPT ![r] = Idle]
        /\ IF pending[r].mismatch \/ refresh_mismatch(u, token)
           THEN /\ users' = refresh_reject(u)
                /\ resp' = [req EXCEPT !.status = 401, !.detail = "Invalid refresh token"]
                /\ UNCHANGED <<blacklist, clock, issued>>
           ELSE /\ clock <= MaxConcTokens
                /\ clock' = clock + 1
                /\ users' = refresh_persist(u, refresh)
                /\ issued' = issued \cup {[uid |-> u, by |-> "refresh", from |-> token,
                                           access |-> access_token, refresh |-> refresh]}
                /\ resp' = [req EXCEPT !.status = 200, !.access_token = access_token,
                                       !.refresh_token = refresh, !.token_type = "bearer"]
                /\ UNCHANGED blacklist

\* refresh_token, lines 88-94: update_token with None or with the new token, the answer.
refresh_write(r) ==
    LET u == pending[r].uid
        token == pending[r].token
        email == decode_refresh_token(token)
        req == [NoResp EXCEPT !.op = "refresh", !.token = token, !.uid = u]
        access_token == create_access_token(email, clock)
        refresh == create_refresh_token(email, clock)
    IN  /\ pending[r].op = "refresh"
        /\ pending' = [pending EXCEPT ![r] = Idle]
        /\ IF pending[r].mismatch
           THEN /\ users' = refresh_reject(u)
                /\ resp' = [req EXCEPT !.status = 401, !.detail = "Invalid refresh token"]
                /\ UNCHANGED <<blacklist, clock, issued>>
           ELSE /\ clock <= MaxConcTokens
                /\ clock' = clock + 1
                /\ users' = refresh_persist(u, refresh)
                /\ issued' = issued \cup {[uid |-> u, by |-> "refresh", from |-> token,
                                           access |-> access_token, refresh |-> refresh]}
                /\ resp' = [req EXCEPT !.status = 200, !.access_token = access_token,
                                       !.refresh_token = refresh, !.token_type = "bearer"]
                /\ UNCHANGED blacklist

NextConc ==
    \/ \E r \in Requests, n \in ConcUsernames, e \in ConcEmails, p \in Passwords :
            signup_check(r, n, e, p)
    \/ \E r \in Requests : signup_create(r)
    \/ \E r \in Requests, n \in ConcUsernames, p \in LoginPasswords :
            login_check(r, n, p)
    \/ \E r \in Requests : login_write(r)
    \/ \E r \in Requests, t \in RefreshTokens : refresh_check(r, t)
    \/ \E r \in Requests : refresh_write(r)

SpecConc == Init /\ [][NextConc]_vars

(***************************************************************************)
(* Helpers of the properties below.                                        *)
(***************************************************************************)
\* The token pairs that were stored on user u.
IssuedTo(u) == {x \in issued : x.uid = u}

\* Some resolution of a refresh presenting this token answers 200.
Accepted(token) ==
    /\ Decodable(token)
    /\ \E u \in get_user_by_email(decode_refresh_token(token)) : ~refresh_mismatch(u, token)

NoTokens(r) == r.access_token = None /\ r.refresh_token = None /\ r.token_type = ""

TokenPair(r) ==
    /\ r.access_token.scope = "access_token"
    /\ r.refresh_token.scope = "refresh_token"
    /\ r.token_type = "bearer"

(***************************************************************************)
(* C1: refresh tokens are single-use.  A refresh that directly follows a   *)
(* login and presents the refresh token the login returned answers 200     *)
(* with a new pair; a refresh that directly follows a successful refresh   *)
(* and presents the same token again answers 401 and leaves the stored     *)
(* refresh token of that user None.                                        *)
(***************************************************************************)
C1_SingleUse ==
    [][ /\ (resp.op = "login" /\ resp.status = 200
            /\ resp'.op = "refresh" /\ resp'.token = resp.refresh_token)
           => /\ resp'.status = 200
              /\ TokenPair(resp')
              /\ resp'.refresh_token # resp.refresh_token
        /\ (resp.op = "refresh" /\ resp.status = 200
            /\ resp'.op = "refresh" /\ resp'.token = resp.token)
           => /\ resp'.status = 401
              /\ users'[resp.uid].refresh_token = None
      ]_vars

(***************************************************************************)
(* C2: in every reachable state, for every user, the stored refresh token  *)
(* is None or the refresh token of the latest pair issued for that user,   *)
(* no other token issued for that user is accepted by refresh, and at most *)
(* one of the user's tokens is accepted.                                   *)
(***************************************************************************)
C2_OneCurrentToken ==
    \A u \in Ids :
        /\ \/ users[u].refresh_token = None
           \/ \E x \in IssuedTo(u) :
                /\ x.refresh = users[u].refresh_token
                /\ \A y \in IssuedTo(u) : y.refresh.iat <= x.refresh.iat
        /\ \A x \in IssuedTo(u) :
                x.refresh # users[u].refresh_token => ~Accepted(x.refresh)
        /\ Cardinality({x \in IssuedTo(u) : Accepted(x.refresh)}) <= 1

\* A user holds a current token next to a stale one that was issued earlier.
C2_Witness ==
    \E u \in Ids : \E x, y \in IssuedTo(u) :
        /\ x.refresh = users[u].refresh_token
        /\ y.refresh # x.refresh
        /\ Accepted(x.refresh)

(***************************************************************************)
(* C3: a login with an existing username, the matching password and no     *)
(* ban answers 200 with a token pair of type bearer, and the user's stored *)
(* refresh token is then the one returned, replacing the value before.     *)
(***************************************************************************)
C3_LoginSuccess ==
    [][ resp'.op = "login" =>
          \A u \in Ids :
              ( /\ users[u].full_name = resp'.username
                /\ verify_password(resp'.password, users[u].password)
                /\ ~users[u].ban )
              => /\ resp'.status = 200
                 /\ resp'.uid = u
                 /\ TokenPair(resp')
                 /\ users'[u].refresh_token = resp'.refresh_token
                 /\ users'[u].refresh_token # users[u].refresh_token
      ]_vars

\* A login succeeded for a user who already had been issued another token.
C3_Witness ==
    /\ resp.op = "login" /\ resp.status = 200
    /\ users[resp.uid].refresh_token = resp.refresh_token
    /\ \E x \in IssuedTo(resp.uid) : x.refresh # resp.refresh_token

(***************************************************************************)
(* C4: a refresh presenting the token stored on the user it resolves       *)
(* answers 200 with a new token pair, and the stored refresh token is then *)
(* the new one, not the one presented.                                     *)
(***************************************************************************)
C4_RefreshRotates ==
    [][ resp'.op = "refresh" =>
          \A u \in Ids :
              (u = resp'.uid /\ users[u].refresh_token = resp'.token)
              => /\ resp'.status = 200
                 /\ TokenPair(resp')
                 /\ resp'.refresh_token # resp'.token
                 /\ users'[u].refresh_token = resp'.refresh_token
      ]_vars

C4_Witness ==
    /\ resp.op = "refresh" /\ resp.status = 200
    /\ users[resp.uid].refresh_token = resp.refresh_token
    /\ \E x \in IssuedTo(resp.uid) : x.refresh = resp.token /\ ~Accepted(resp.token)

(***************************************************************************)
(* C5: a refresh presenting a decodable token that differs from the token  *)
(* stored on the user it resolves answers 401 "Invalid refresh token",     *)
(* sets that user's stored refresh token to None and issues no tokens.     *)
(***************************************************************************)
C5_RefreshMismatch ==
    [][ (resp'.op = "refresh" /\ Decodable(resp'.token)) =>
          \A u \in Ids :
              (u = resp'.uid /\ users[u].refresh_token # resp'.token)
              => /\ resp'.status = 401
                 /\ resp'.detail = "Invalid refresh token"
                 /\ users'[u].refresh_token = None
                 /\ NoTokens(resp')
                 /\ issued' = issued /\ clock' = clock
      ]_vars

\* A stale token was presented and the newer token stored on the user was cleared.
C5_Witness ==
    /\ resp.op = "refresh" /\ resp.status = 401
    /\ resp.detail = "Invalid refresh token"
    /\ users[resp.uid].refresh_token = None
    /\ \E x, y \in IssuedTo(resp.uid) :
           x.refresh = resp.token /\ y.refresh.iat > x.refresh.iat

(***************************************************************************)
(* C6: a login with an unknown username answers 401 "Invalid email", a     *)
(* login with an existing username and a password that does not match      *)
(* answers 401 "Invalid password"; either way no token is issued and the   *)
(* user table, the blacklist and the issued tokens are unchanged.          *)
(***************************************************************************)
C6_LoginRejects ==
    [][ resp'.op = "login" =>
          /\ get_user_by_username(resp'.username) = {}
             => /\ resp'.status = 401 /\ resp'.detail = "Invalid email"
                /\ NoTokens(resp')
                /\ UNCHANGED <<users, blacklist, issued, clock>>
          /\ \A u \in Ids :
               ( /\ users[u].full_name = resp'.username
                 /\ ~verify_password(resp'.password, users[u].password) )
               => /\ resp'.status = 401 /\ resp'.detail = "Invalid password"
                  /\ NoTokens(resp')
                  /\ UNCHANGED <<users, blacklist, issued, clock>>
      ]_vars

\* A wrong password was rejected for a user who holds a stored refresh token.
C6_Witness ==
    /\ resp.op = "login" /\ resp.status = 401 /\ resp.detail = "Invalid password"
    /\ users[resp.uid].refresh_token # None
    /\ ~users[resp.uid].ban

(***************************************************************************)
(* C7: a login on a banned account answers 401, also with the correct      *)
(* username and password (then with the ban message); no token is issued   *)
(* and the user's stored refresh token is unchanged.                       *)
(***************************************************************************)
C7_LoginBanned ==
    [][ resp'.op = "login" =>
          \A u \in Ids :
              (users[u].full_name = resp'.username /\ users[u].ban)
              => /\ resp'.status = 401
                 /\ verify_password(resp'.password, users[u].password)
                    => resp'.detail = "You were banned by an administrator"
                 /\ NoTokens(resp')
                 /\ users'[u].refresh_token = users[u].refresh_token
                 /\ issued' = issued /\ clock' = clock
      ]_vars

\* A banned user with a stored refresh token logged in with the right password.
C7_Witness ==
    /\ resp.op = "login" /\ resp.status = 401
    /\ resp.detail = "You were banned by an administrator"
    /\ users[resp.uid].ban
    /\ verify_password(resp.password, users[resp.uid].password)
    /\ users[resp.uid].refresh_token # None

(***************************************************************************)
(* C8: a signup with a username that already has a record answers 409      *)
(* "Account already exists" and creates no record: the user table (and the *)
(* rest of the store) is unchanged.                                        *)
(***************************************************************************)
C8_SignupConflict ==
    [][ (resp'.op = "signup" /\ get_user_by_username(resp'.username) # {})
          => /\ resp'.status = 409
             /\ resp'.detail = "Account already exists"
             /\ UNCHANGED <<users, blacklist, issued, clock>>
      ]_vars

C8_Witness ==
    /\ resp.op = "signup" /\ resp.status = 409
    /\ get_user_by_username(resp.username) # {}

(***************************************************************************)
(* C9: a signup with a username not yet present answers 201 and appends    *)
(* exactly one record; the password stored in and returned from it is the  *)
(* hash of the submitted password, not the plaintext; and a record has no  *)
(* stored refresh token before a login for it succeeded.                   *)
(***************************************************************************)
C9_NoTokenBeforeLogin ==
    \A u \in Ids :
        users[u].refresh_token # None => \E x \in IssuedTo(u) : x.by = "login"

C10_LogoutBlacklists ==
    [][ resp'.op = "logout" =>
          /\ resp'.status = 200 /\ resp'.detail = "Logout successful."
          /\ resp'.uid \in Ids
          /\ Len(blacklist') = Len(blacklist) + 1
          /\ SubSeq(blacklist', 1, Len(blacklist)) = blacklist
          /\ blacklist'[Len(blacklist')] =
                 [user_id |-> resp'.uid, token |-> users[resp'.uid].refresh_token]
          /\ users' = users
      ]_vars

\* A user holding a stored refresh token logged out.
C10_Witness ==
    /\ resp.op = "logout" /\ resp.status = 200
    /\ Len(blacklist) > 0
    /\ blacklist[Len(blacklist)].user_id = resp.uid
    /\ blacklist[Len(blacklist)].token = users[resp.uid].refresh_token
    /\ users[resp.uid].refresh_token # None

(***************************************************************************)
(* C11: every refresh request ends with 200 and a token pair or with 401;  *)
(* a refresh whose token decodes to an email that no user record has is    *)
(* answered with 401.                                                      *)
(***************************************************************************)
C11_RefreshEndsIn200Or401 ==
    resp.op = "refresh" =>
        \/ resp.status = 200 /\ TokenPair(resp)
        \/ resp.status = 401 /\ NoTokens(resp)

(***************************************************************************)
(* C12: logout does not revoke the refresh token at the refresh endpoint.  *)
(* Right after a logout that blacklisted the stored token T of a user, T   *)
(* is still that user's stored token and refresh still accepts it; the     *)
(* refresh that follows directly, presents T and resolves that user        *)
(* answers 200 with a new pair although T is in the blacklist.             *)
(***************************************************************************)
Blacklisted(u, token) ==
    \E i \in 1..Len(blacklist) : blacklist[i] = [user_id |-> u, token |-> token]

C12_StillStored ==
    (resp.op = "logout" /\ blacklist[Len(blacklist)].token # None)
        => /\ users[resp.uid].refresh_token = blacklist[Len(blacklist)].token
           /\ Accepted(blacklist[Len(blacklist)].token)

C16_RefreshActsOnLoginRecord ==
    [][ ( /\ resp.op = "login" /\ resp.status = 200
          /\ resp'.op = "refresh" /\ resp'.token = resp.refresh_token )
        => /\ resp'.uid = resp.uid
           /\ resp'.status = 200
           /\ users'[resp.uid].refresh_token = resp'.refresh_token
      ]_vars

(***************************************************************************)
(* C17: forced logout persists until the next login.  While the stored     *)
(* refresh token of a user is None, every refresh that resolves that user  *)
(* or presents a token issued for that user answers 401 and leaves it      *)
(* None; only a successful login of that user stores a token again.        *)
(***************************************************************************)
C17_ForcedLogoutPersists ==
    [][ \A u \in Ids :
          users[u].refresh_token = None =>
            /\ ( /\ resp'.op = "refresh"
                 /\ \/ resp'.uid = u
                    \/ \E x \in IssuedTo(u) : x.refresh = resp'.token )
               => /\ resp'.status = 401
                  /\ users'[u].refresh_token = None
            /\ users'[u].refresh_token # None
               => /\ resp'.op = "login" /\ resp'.status = 200 /\ resp'.uid = u
                  /\ users'[u].refresh_token = resp'.refresh_token
      ]_vars

\* The token that was current just before the clearing is presented and rejected.
C17_Witness ==
    /\ resp.op = "refresh" /\ resp.status = 401
    /\ resp.uid \in Ids
    /\ users[resp.uid].refresh_token = None
    /\ \E x \in IssuedTo(resp.uid) :
           /\ x.refresh = resp.token
           /\ x.by = "refresh"
           /\ \A y \in IssuedTo(resp.uid) : y.refresh.iat <= x.refresh.iat

(***************************************************************************)
(* C18: login checks in the order user exists, password matches, not       *)
(* banned, and stops at the first failure: a wrong password on a banned    *)
(* account gets "Invalid password", and the ban message is returned only   *)
(* when the password matches.                                              *)
(***************************************************************************)
C18_LoginCheckOrder ==
    [][ resp'.op = "login" =>
          /\ get_user_by_username(resp'.username) = {} => resp'.detail = "Invalid email"
          /\ \A u \in Ids :
               users[u].full_name = resp'.username =>
                 /\ ~verify_password(resp'.password, users[u].password)
                    => resp'.detail = "Invalid password"
                 /\ resp'.detail = "You were banned by an administrator"
                    => /\ verify_password(resp'.password, users[u].password)
                       /\ users[u].ban
      ]_vars

\* A banned account was refused for its wrong password.
C18_Witness ==
    /\ resp.op = "login" /\ resp.status = 401 /\ resp.detail = "Invalid password"
    /\ users[resp.uid].ban
    /\ ~verify_password(resp.password, users[resp.uid].password)

(***************************************************************************)
(* C19: in every reachable state every blacklist row pairs a user id with  *)
(* a refresh token that is not None and that was issued for that user by   *)
(* a login or a refresh.                                                   *)
(***************************************************************************)
C19_BlacklistHoldsIssuedTokens ==
    \A i \in 1..Len(blacklist) :
        /\ blacklist[i].token # None
        /\ \E x \in IssuedTo(blacklist[i].user_id) : x.refresh = blacklist[i].token

(***************************************************************************)
(* C15: requests of different users are independent.  A signup, login,     *)
(* refresh or logout changes the record and the blacklist rows of no user  *)
(* other than the one it is for: the user signed up or logging in, the     *)
(* user the presented refresh token or access token was issued for.        *)
(***************************************************************************)
\* The users the request of response r is for.
RequestFor(r) ==
    CASE r.op \in {"signup", "login"} -> get_user_by_username(r.username)
      [] r.op = "refresh" -> {x.uid : x \in {y \in issued : y.refresh = r.token}}
      [] r.op = "logout" -> {x.uid : x \in {y \in issued : y.access = r.access_token}}
      [] OTHER -> {}

RowsOf(rows, u) == {i \in 1..Len(rows) : rows[i].user_id = u}

C15_UsersIndependent ==
    [][ resp'.op \in {"signup", "login", "refresh", "logout"} =>
          \A b \in Ids :
              b \notin RequestFor(resp')
              => /\ users'[b] = users[b]
                 /\ RowsOf(blacklist', b) = RowsOf(blacklist, b)
      ]_vars

(***************************************************************************)
(* C13: the existence check and the creation of signup are not atomic.  A  *)
(* signup that passed the check creates its record whatever the table      *)
(* holds by then and answers 201, so two signups for one unused username   *)
(* that both passed the check leave two records with that username.        *)
(***************************************************************************)
C13_SignupCreatesAfterCheck ==
    [][ \A r \in Requests :
          (pending[r].op = "signup" /\ pending'[r] = Idle)
          => /\ users' = Append(users, [full_name |-> pending[r].body.full_name,
                                        email |-> pending[r].body.email,
                                        password |-> pending[r].body.password,
                                        ban |-> FALSE, refresh_token |-> None])
             /\ resp'.op = "signup" /\ resp'.status = 201
      ]_vars

\* Two signups for the same username were both answered with a new record.
C13_Witness ==
    /\ Len(users) = 2
    /\ users[1].full_name = users[2].full_name
    /\ resp.op = "signup" /\ resp.status = 201 /\ resp.uid = 2

(***************************************************************************)
(* C14: the token check and the token update of refresh are not atomic.  A *)
(* refresh whose comparison passed stores and returns a new pair whatever  *)
(* is stored by then, so two refreshes of one stored token both answer 200 *)
(* with different pairs; of two such pairs the one written first is no     *)
(* longer accepted, and a refresh whose comparison failed answers 401 and  *)
(* sets the stored token to None.                                          *)
(***************************************************************************)
C14_OlderPairIsStale ==
    \A x, y \in issued :
        (x # y /\ x.by = "refresh" /\ y.by = "refresh" /\ x.from = y.from)
        => /\ x.refresh # y.refresh
           /\ x.access # y.access
           /\ x.refresh.iat < y.refresh.iat => ~Accepted(x.refresh)

C14_RefreshWritesAfterCheck ==
    /\ []C14_OlderPairIsStale
    /\ [][ \A r \in Requests :
             (pending[r].op = "refresh" /\ pending'[r] = Idle)
             => IF pending[r].mismatch
                THEN /\ resp'.status = 401
                     /\ users'[pending[r].uid].refresh_token = None
                ELSE /\ resp'.status = 200 /\ TokenPair(resp')
                     /\ resp'.token = pending[r].token
                     /\ resp'.refresh_token \notin {x.refresh : x \in issued}
                     /\ users'[pending[r].uid].refresh_token = resp'.refresh_token
         ]_vars

\* Two refreshes of the same token were both answered 200; the pair returned
\* first was then presented and rejected, which cleared the stored token.
C14_Witness ==
    /\ resp.op = "refresh" /\ resp.status = 401
    /\ resp.uid \in Ids
    /\ users[resp.uid].refresh_token = None
    /\ \E x, y \in issued :
          /\ x.by = "refresh" /\ y.by = "refresh" /\ x.from = y.from
          /\ x.refresh.iat < y.refresh.iat
          /\ resp.token = x.refresh

====
